---- MODULE Spec2Model ----
(***************************************************************************)
(* Model of the swagger-to-csv flattening code.                            *)
(*                                                                         *)
(*   openAi_to_Excel.py : export_tables runs extract_endpoints,            *)
(*       extract_parameters, extract_responses, extract_tags,              *)
(*       extract_securities and extract_models_and_properties in that      *)
(*       order on one parsed document; a Python exception in any of them   *)
(*       ends the run.                                                     *)
(*   openapi_to_csv.py  : main builds one row per operation, sorts the     *)
(*       rows and writes them.                                             *)
(*                                                                         *)
(* A parsed JSON value is a record tagged by k:                            *)
(*   [k |-> "null"]                 JSON null / Python None                *)
(*   [k |-> "str",  v |-> "..."]    a string                               *)
(*   [k |-> "bool", v |-> TRUE]     a boolean                              *)
(*   [k |-> "list", v |-> <<..>>]   a list                                 *)
(*   [k |-> "dict", e |-> <<[key |-> .., val |-> ..], ..>>]                *)
(*                                  a mapping with free keys, in document  *)
(*                                  order (paths, path item, responses,    *)
(*                                  security requirement, definitions)     *)
(*   [k |-> "dict", f1 |-> .., ..]  a mapping with known keys (document,   *)
(*                                  operation, parameter, response,        *)
(*                                  schema, ...); a key that is not in the *)
(*                                  mapping holds Absent                   *)
(***************************************************************************)
EXTENDS Integers, Sequences, FiniteSets, TLC

VARIABLES
  sw,           \* the parsed document (sw in openAi_to_Excel.py, spec in openapi_to_csv.py)
  prog,         \* the script that runs on it
  pc,           \* the next call of the script, "done" or "raised"
  failed,       \* the function an exception came out of, "" while there is none
  endpoints, parameters, responses, tags, securities, models, model_props,
                \* the relations of export_tables, <<>> until they are extracted
  rows          \* the rows openapi_to_csv.py writes

vars == <<sw, prog, pc, failed, endpoints, parameters, responses, tags,
          securities, models, model_props, rows>>

-----------------------------------------------------------------------------
(* JSON values *)

Absent == [k |-> "absent"]

Null == [k |-> "null"]

S(s) == [k |-> "str", v |-> s]

B(b) == [k |-> "bool", v |-> b]

L(s) == [k |-> "list", v |-> s]

M(s) == [k |-> "dict", e |-> s]

Entry(key, val) == [key |-> key, val |-> val]

\* isinstance(x, dict)
IsDict(x) == x.k = "dict"

\* isinstance(x, list)
IsList(x) == x.k = "list"

\* Python truth value of a parsed JSON value
Truthy(x) ==
  CASE x.k = "null" -> FALSE
    [] x.k = "str" -> x.v # ""
    [] x.k = "bool" -> x.v
    [] x.k = "list" -> x.v # <<>>
    [] x.k = "dict" -> IF "e" \in DOMAIN x THEN x.e # <<>>
                       ELSE \E f \in DOMAIN x \ {"k"} : x[f] # Absent

\* d.get(key, default) for a mapping with known keys: field is d's slot for key
Get(field, default) == IF field = Absent THEN default ELSE field

\* d.get(key) : the default is None
GetN(field) == Get(field, Null)

\* d.get(key, default) for a mapping with free keys
MGet(d, key, default) ==
  IF \E i \in 1..Len(d.e) : d.e[i].key = key
  THEN d.e[CHOOSE i \in 1..Len(d.e) : d.e[i].key = key].val
  ELSE default

\* x or default
Or(x, default) == IF Truthy(x) THEN x ELSE default

-----------------------------------------------------------------------------
(* Sequence helpers *)

RECURSIVE Concat(_)
Concat(ss) == IF ss = <<>> THEN <<>> ELSE Head(ss) \o Concat(Tail(ss))

\* sep.join(strs)
RECURSIVE Join(_, _)
Join(strs, sep) ==
  IF strs = <<>> THEN ""
  ELSE IF Len(strs) = 1 THEN strs[1]
  ELSE strs[1] \o sep \o Join(Tail(strs), sep)

\* str.lower() on the keys a path item of the model can hold
lower(s) ==
  CASE s = "GET" -> "get"
    [] s = "POST" -> "post"
    [] s = "TRACE" -> "trace"
    [] OTHER -> s

\* str.upper() on the keys a path item of the model can hold
upper(s) ==
  CASE s = "get" -> "GET"
    [] s = "post" -> "POST"
    [] s = "trace" -> "TRACE"
    [] s = "parameters" -> "PARAMETERS"
    [] s = "summary" -> "SUMMARY"
    [] OTHER -> s

-----------------------------------------------------------------------------
(* openAi_to_Excel.py *)

\* a verb too many
list_http_methods_with_trace ==
  {"get", "put", "post", "delete", "options", "head", "patch", "trace"}

list_http_methods == {"get", "put", "post", "delete", "options", "head", "patch"}

safe_get(field, default) ==
  LET v == Get(field, default) IN IF v # Null THEN v ELSE default

\* values is None or a list of strings; the result is None or a string
join_or_none(values) ==
  IF ~Truthy(values) THEN Null ELSE S(Join(values.v, ", "))

\* the scheme defaults to http
build_full_url_template_http(schemes, host, base_path, path) ==
  IF ~Truthy(host) THEN Null
  ELSE LET scheme == IF Truthy(schemes) THEN schemes.v[1] ELSE "http"
           bp == Or(base_path, S(""))
       IN  S(scheme \o "://" \o host.v \o bp.v \o path)

build_full_url_template(schemes, host, base_path, path) ==
  IF ~Truthy(host) THEN Null
  ELSE LET scheme == IF Truthy(schemes) THEN schemes.v[1] ELSE "https"
           bp == Or(base_path, S(""))
       IN  S(scheme \o "://" \o host.v \o bp.v \o path)

\* the loop over sec.items() of one security requirement
SecurityTokens(sec) ==
  [i \in 1..Len(sec.e) |->
     IF Truthy(sec.e[i].val)
     THEN sec.e[i].key \o "(" \o Join(sec.e[i].val.v, ", ") \o ")"
     ELSE sec.e[i].key]

\* op.get("security") or sw.get("security", []) : an empty list of the
\* operation gives way to the document's
SecurityFlatFallsBack(doc, op) ==
  LET security == Or(GetN(op.security), Get(doc.security, L(<<>>)))
      secs == Or(security, L(<<>>)).v
  IN  Concat([i \in 1..Len(secs) |-> SecurityTokens(secs[i])])

\* security_flat of one operation
SecurityFlat(doc, op) ==
  LET security == Get(op.security, Get(doc.security, L(<<>>)))
      secs == Or(security, L(<<>>)).v
  IN  Concat([i \in 1..Len(secs) |-> SecurityTokens(secs[i])])

\* line 61: the test that lets an entry of a path item through as an operation
EndpointIsOperation(method, op) ==
  ~(lower(method) \notin list_http_methods \/ ~IsDict(op))

\* line 120: the same test in extract_parameters
ParameterIsOperation(method, op) ==
  ~(lower(method) \notin list_http_methods \/ ~IsDict(op))

\* the test without lower()
ResponseIsOperationCaseSensitive(method, op) ==
  ~(method \notin list_http_methods \/ ~IsDict(op))

\* line 166: the same test in extract_responses
ResponseIsOperation(method, op) ==
  ~(lower(method) \notin list_http_methods \/ ~IsDict(op))

\* sw.get("paths", {}).items() : None has no items()
PathsRaise(doc) == ~IsDict(Get(doc.paths, M(<<>>)))

PathEntries(doc) == Get(doc.paths, M(<<>>)).e

\* the entries of one path item the loop of extract_endpoints does not skip
EndpointOperations(path_item) ==
  IF ~IsDict(path_item) THEN <<>>
  ELSE SelectSeq(path_item.e, LAMBDA en : EndpointIsOperation(en.key, en.val))

ParameterOperations(path_item) ==
  IF ~IsDict(path_item) THEN <<>>
  ELSE SelectSeq(path_item.e, LAMBDA en : ParameterIsOperation(en.key, en.val))

ResponseOperations(path_item) ==
  IF ~IsDict(path_item) THEN <<>>
  ELSE SelectSeq(path_item.e, LAMBDA en : ResponseIsOperation(en.key, en.val))

\* len() of a value: None has no len()
LenRaises(x) == x.k \notin {"list", "dict", "str"}

len(x) == IF x.k = "dict" THEN Len(x.e) ELSE Len(x.v)

\* the empty string stands for no tags
ApiGroupEmpty(op) ==
  LET tgs == Get(op.tags, L(<<>>))
  IN  IF Truthy(tgs) THEN S(tgs.v[1]) ELSE S("")

\* api_group of the rows of one operation (lines 64-65, 123-124, 169-170)
ApiGroup(op) ==
  LET tgs == Get(op.tags, L(<<>>))
  IN  IF Truthy(tgs) THEN S(tgs.v[1]) ELSE Null

\* line 92
ParametersCount(path_level_params, op) ==
  len(Get(op.parameters, L(<<>>))) + len(path_level_params)

\* only the responses that are mappings are counted
ResponsesCountMappings(op) ==
  Len(SelectSeq(Get(op.responses, M(<<>>)).e, LAMBDA en : IsDict(en.val)))

\* line 93
ResponsesCount(op) == len(Get(op.responses, M(<<>>)))

EndpointRaises(path_level_params, op) ==
  \/ LenRaises(Get(op.parameters, L(<<>>)))
  \/ LenRaises(path_level_params)
  \/ LenRaises(Get(op.responses, M(<<>>)))

EndpointRow(doc, path, path_level_params, method, op) ==
  LET tgs == Get(op.tags, L(<<>>))
  IN  [api_group |-> ApiGroup(op),
       tags |-> join_or_none(tgs),
       method |-> upper(method),
       path |-> path,
       full_url_template |->
         build_full_url_template(Get(doc.schemes, L(<<>>)), GetN(doc.host),
                                 GetN(doc.basePath), path),
       parameters_count |-> ParametersCount(path_level_params, op),
       responses_count |-> ResponsesCount(op),
       security |-> join_or_none(L(SecurityFlat(doc, op)))]

extract_endpoints_raises(doc) ==
  \/ PathsRaise(doc)
  \/ \E i \in 1..Len(PathEntries(doc)) :
       LET path_item == PathEntries(doc)[i].val
           ops == EndpointOperations(path_item)
       IN  \E j \in 1..Len(ops) :
             EndpointRaises(MGet(path_item, "parameters", L(<<>>)), ops[j].val)

extract_endpoints(doc) ==
  Concat([i \in 1..Len(PathEntries(doc)) |->
    LET path == PathEntries(doc)[i].key
        path_item == PathEntries(doc)[i].val
        ops == EndpointOperations(path_item)
    IN  [j \in 1..Len(ops) |->
           EndpointRow(doc, path, MGet(path_item, "parameters", L(<<>>)),
                       ops[j].key, ops[j].val)]])

\* x.get(...) : only a mapping has get()
GetRaises(x) == ~IsDict(x)

\* for p in x / list.extend(x) : None is not iterable
IterRaises(x) == x.k \notin {"list", "dict", "str"}

\* operation-level first, then path-level
ParamsOpFirst(path_level_params, op) ==
  Get(op.parameters, L(<<>>)).v \o path_level_params.v

\* params of one operation: path-level first, then operation-level
Params(path_level_params, op) ==
  path_level_params.v \o Get(op.parameters, L(<<>>)).v

ParametersRaise(path_level_params, op) ==
  \/ IterRaises(path_level_params)
  \/ IterRaises(Get(op.parameters, L(<<>>)))
  \/ \E i \in 1..Len(Params(path_level_params, op)) :
        GetRaises(Params(path_level_params, op)[i])

ParameterRow(path, method, op, p) ==
  LET schema == GetN(p.schema)
      items == GetN(p.items)
      empty == [k |-> "dict", type |-> Absent, items |-> Absent]
  IN  [api_group |-> ApiGroup(op),
       method |-> upper(method),
       path |-> path,
       name |-> GetN(p.name),
       in |-> GetN(p.in),
       required |-> Get(p.required, B(FALSE)),
       type |-> GetN(p.type),
       items_type |-> safe_get(Or(items, empty).type, Null),
       schema_type |-> safe_get(Or(schema, empty).type, Null)]

extract_parameters_raises(doc) ==
  \/ PathsRaise(doc)
  \/ \E i \in 1..Len(PathEntries(doc)) :
       LET path_item == PathEntries(doc)[i].val
           ops == ParameterOperations(path_item)
       IN  \E j \in 1..Len(ops) :
             ParametersRaise(MGet(path_item, "parameters", L(<<>>)), ops[j].val)

extract_parameters(doc) ==
  Concat([i \in 1..Len(PathEntries(doc)) |->
    LET path == PathEntries(doc)[i].key
        path_item == PathEntries(doc)[i].val
        ops == ParameterOperations(path_item)
    IN  Concat([j \in 1..Len(ops) |->
          LET params == Params(MGet(path_item, "parameters", L(<<>>)), ops[j].val)
          IN  [n \in 1..Len(params) |->
                 ParameterRow(path, ops[j].key, ops[j].val, params[n])]])])

\* one response of an operation: the rows it adds (none when it is no mapping)
ResponseRaises(resp) ==
  /\ IsDict(resp)
  /\ LET schema == Or(GetN(resp.schema), [k |-> "dict", type |-> Absent, items |-> Absent])
     IN  \/ GetRaises(schema)
         \/ GetRaises(Get(schema.items, [k |-> "dict", type |-> Absent, items |-> Absent]))

ResponseRow(path, method, op, code, resp) ==
  LET empty == [k |-> "dict", type |-> Absent, items |-> Absent]
      schema == Or(GetN(resp.schema), empty)
  IN  [api_group |-> ApiGroup(op),
       method |-> upper(method),
       path |-> path,
       status_code |-> code,
       description |-> GetN(resp.description),
       schema_type |-> GetN(schema.type),
       schema_items_type |-> safe_get(Get(schema.items, empty).type, Null)]

OperationResponsesRaise(op) ==
  LET rs == Get(op.responses, M(<<>>))
  IN  \/ GetRaises(rs)
      \/ \E n \in 1..Len(rs.e) : ResponseRaises(rs.e[n].val)

extract_responses_raises(doc) ==
  \/ PathsRaise(doc)
  \/ \E i \in 1..Len(PathEntries(doc)) :
       LET ops == ResponseOperations(PathEntries(doc)[i].val)
       IN  \E j \in 1..Len(ops) : OperationResponsesRaise(ops[j].val)

extract_responses(doc) ==
  Concat([i \in 1..Len(PathEntries(doc)) |->
    LET path == PathEntries(doc)[i].key
        ops == ResponseOperations(PathEntries(doc)[i].val)
    IN  Concat([j \in 1..Len(ops) |->
          LET rs == SelectSeq(Get(ops[j].val.responses, M(<<>>)).e,
                              LAMBDA en : IsDict(en.val))
          IN  [n \in 1..Len(rs) |->
                 ResponseRow(path, ops[j].key, ops[j].val, rs[n].key, rs[n].val)]])])

TagRaises(t) ==
  \/ GetRaises(t)
  \/ GetRaises(Get(t.externalDocs, [k |-> "dict", description |-> Absent, url |-> Absent]))

TagRow(t) ==
  LET docs == Get(t.externalDocs, [k |-> "dict", description |-> Absent, url |-> Absent])
  IN  [name |-> GetN(t.name),
       description |-> GetN(t.description),
       externalDocs_description |-> safe_get(docs.description, Null),
       externalDocs_url |-> safe_get(docs.url, Null)]

extract_tags_raises(doc) ==
  LET tgs == Get(doc.tags, L(<<>>))
  IN  \/ IterRaises(tgs)
      \/ \E i \in 1..Len(tgs.v) : TagRaises(tgs.v[i])

extract_tags(doc) ==
  LET tgs == Get(doc.tags, L(<<>>)).v
  IN  [i \in 1..Len(tgs) |-> TagRow(tgs[i])]

SecurityRaises(s) ==
  \/ GetRaises(s)
  \/ GetRaises(Get(s.scopes, M(<<>>)))

SecurityRow(name, s) ==
  LET scopes == Get(s.scopes, M(<<>>)).e
  IN  [name |-> name,
       type |-> GetN(s.type),
       scopes |-> join_or_none(L([i \in 1..Len(scopes) |->
                     scopes[i].key \o ":" \o scopes[i].val.v]))]

extract_securities_raises(doc) ==
  LET secs == Or(Get(doc.securityDefinitions, M(<<>>)), M(<<>>))
  IN  \/ GetRaises(secs)
      \/ \E i \in 1..Len(secs.e) : SecurityRaises(secs.e[i].val)

extract_securities(doc) ==
  LET secs == Or(Get(doc.securityDefinitions, M(<<>>)), M(<<>>)).e
  IN  [i \in 1..Len(secs) |-> SecurityRow(secs[i].key, secs[i].val)]

EmptyXml == [k |-> "dict", name |-> Absent, wrapped |-> Absent]

PropertyRaises(prop) ==
  \/ GetRaises(prop)
  \/ GetRaises(Get(prop.xml, EmptyXml))

ModelRaises(model) ==
  \/ GetRaises(model)
  \/ GetRaises(Get(model.xml, EmptyXml))
  \/ LET props == Or(Get(model.properties, M(<<>>)), M(<<>>))
     IN  \/ GetRaises(props)
         \/ \E i \in 1..Len(props.e) : PropertyRaises(props.e[i].val)

ModelRow(model_name, model) ==
  [model_name |-> model_name,
   type |-> GetN(model.type),
   xml_name |-> GetN(Get(model.xml, EmptyXml).name),
   required_fields |-> join_or_none(Get(model.required, L(<<>>)))]

PropertyRow(model_name, prop_name, prop) ==
  LET items == GetN(prop.items)
      xmlp == Get(prop.xml, EmptyXml)
  IN  [model_name |-> model_name,
       property_name |-> prop_name,
       type |-> GetN(prop.type),
       items_type |->
         safe_get(Or(items, [k |-> "dict", type |-> Absent, items |-> Absent]).type, Null),
       xml_name |-> GetN(xmlp.name),
       xml_wrapped |-> safe_get(xmlp.wrapped, Null)]

extract_models_and_properties_raises(doc) ==
  LET defs == Or(Get(doc.definitions, M(<<>>)), M(<<>>))
  IN  \/ GetRaises(defs)
      \/ \E i \in 1..Len(defs.e) : ModelRaises(defs.e[i].val)

\* the pair (models, model properties)
extract_models_and_properties(doc) ==
  LET defs == Or(Get(doc.definitions, M(<<>>)), M(<<>>)).e
  IN  <<[i \in 1..Len(defs) |-> ModelRow(defs[i].key, defs[i].val)],
        Concat([i \in 1..Len(defs) |->
          LET props == Or(Get(defs[i].val.properties, M(<<>>)), M(<<>>)).e
          IN  [n \in 1..Len(props) |->
                 PropertyRow(defs[i].key, props[n].key, props[n].val)]])>>

-----------------------------------------------------------------------------
(* openapi_to_csv.py *)

HTTP_METHODS == {"get", "post", "put", "patch", "delete", "options", "head", "trace"}

\* tags is a list of strings here: main passes op.get("tags") or []
join_tags(tgs) ==
  IF IsList(tgs) THEN Join(tgs.v, "; ")
  ELSE IF Truthy(tgs) THEN tgs.v ELSE ""

\* the text collect_params appends for one parameter that is a mapping
RenderParam(p) ==
  LET name == Get(p.name, S("")).v
      loc == Get(p.in, S("")).v
      required == Get(p.required, B(FALSE))
      typ == IF IsDict(GetN(p.schema)) THEN Get(p.schema.type, S(""))
             ELSE IF p.type # Absent THEN Get(p.type, S(""))
             ELSE S("")
      star == IF Truthy(required) THEN "*" ELSE ""
  IN  IF Truthy(typ)
      THEN name \o " (" \o loc \o ")" \o star \o " : " \o typ.v
      ELSE name \o " (" \o loc \o ")" \o star

\* the collections taken in the order of the arguments
RenderAllOpFirst(op_level, path_level) ==
  LET coll == Or(op_level, L(<<>>)).v \o Or(path_level, L(<<>>)).v
      dicts == SelectSeq(coll, IsDict)
  IN  [i \in 1..Len(dicts) |-> RenderParam(dicts[i])]

\* params after the first loop of collect_params
RenderAll(op_level, path_level) ==
  LET coll == Or(path_level, L(<<>>)).v \o Or(op_level, L(<<>>)).v
      dicts == SelectSeq(coll, IsDict)
  IN  [i \in 1..Len(dicts) |-> RenderParam(dicts[i])]

\* the de-dup loop of collect_params: uniq when params is used up
RECURSIVE Dedup(_, _, _)
Dedup(params, seen, uniq) ==
  IF params = <<>> THEN uniq
  ELSE IF Head(params) \notin seen
       THEN Dedup(Tail(params), seen \cup {Head(params)}, Append(uniq, Head(params)))
       ELSE Dedup(Tail(params), seen, uniq)

collect_params(op_level, path_level) ==
  Join(Dedup(RenderAll(op_level, path_level), {}, <<>>), "; ")

get_responses(op) ==
  LET rs == Get(op.responses, M(<<>>))
  IN  IF IsDict(rs) THEN Join([i \in 1..Len(rs.e) |-> rs.e[i].key], ", ") ELSE ""

\* the strings main sorts by, in the order Python compares str values
StrOrder ==
  <<"", "/a", "/pets", "/pets/{id}", "; pets", "GET", "POST", "TRACE", "pets", "pets; store", "store">>

StrRank(s) == CHOOSE i \in 1..Len(StrOrder) : StrOrder[i] = s

\* the sort key of a row, and the order of two keys (tuples compare left to right)
SortKey(r) == <<StrRank(r.API_Group_tags), StrRank(r.Path), StrRank(r.Method)>>

KeyLess(a, b) ==
  \/ a[1] < b[1]
  \/ a[1] = b[1] /\ a[2] < b[2]
  \/ a[1] = b[1] /\ a[2] = b[2] /\ a[3] < b[3]

\* list.sort is stable: a row goes behind the rows whose key is not greater
RECURSIVE Insert(_, _)
Insert(sorted, r) ==
  IF sorted = <<>> THEN <<r>>
  ELSE IF KeyLess(SortKey(r), SortKey(Head(sorted)))
       THEN <<r>> \o sorted
       ELSE <<Head(sorted)>> \o Insert(Tail(sorted), r)

RECURSIVE SortRows(_)
SortRows(rs) ==
  IF rs = <<>> THEN <<>>
  ELSE Insert(SortRows(SubSeq(rs, 1, Len(rs) - 1)), rs[Len(rs)])

CsvIsOperation(method, op) ==
  ~(lower(method) \notin HTTP_METHODS) /\ ~(~IsDict(op))

CsvRow(path, path_params, method, op) ==
  [API_Group_tags |-> join_tags(Or(GetN(op.tags), L(<<>>))),
   Method |-> upper(method),
   Path |-> path,
   Parameters |-> collect_params(GetN(op.parameters), path_params),
   Responses |-> get_responses(op)]

\* rows of main before the sort
CsvTraversal(doc) ==
  Concat([i \in 1..Len(PathEntries(doc)) |->
    LET path == PathEntries(doc)[i].key
        methods == PathEntries(doc)[i].val
    IN  IF ~IsDict(methods) THEN <<>>
        ELSE LET path_params == IF IsList(MGet(methods, "parameters", Null))
                                THEN MGet(methods, "parameters", L(<<>>))
                                ELSE L(<<>>)
                 ops == SelectSeq(methods.e, LAMBDA en : CsvIsOperation(en.key, en.val))
             IN  [j \in 1..Len(ops) |->
                    CsvRow(path, path_params, ops[j].key, ops[j].val)]])

main_raises(doc) == PathsRaise(doc)

main(doc) == SortRows(CsvTraversal(doc))

-----------------------------------------------------------------------------
(* The documents the scripts are run on *)

MaxParams == 3

MaxResponses == 2

MaxEntries == 2

Doc(host, basePath, schemes, security, paths, tgs, securityDefinitions, definitions) ==
  [k |-> "dict", host |-> host, basePath |-> basePath, schemes |-> schemes,
   security |-> security, paths |-> paths, tags |-> tgs,
   securityDefinitions |-> securityDefinitions, definitions |-> definitions]

Op(tgs, security, params, resps) ==
  [k |-> "dict", tags |-> tgs, security |-> security, parameters |-> params,
   responses |-> resps]

Param(name, loc, required, type, schema, items) ==
  [k |-> "dict", name |-> name, in |-> loc, required |-> required, type |-> type,
   schema |-> schema, items |-> items]

Schema(type, items) == [k |-> "dict", type |-> type, items |-> items]

Resp(description, schema) ==
  [k |-> "dict", description |-> description, schema |-> schema]

\* a document that has only paths
PathsDoc(paths) == Doc(Absent, Absent, Absent, Absent, paths, Absent, Absent, Absent)

\* sequences over S of length at most n
SeqsUpTo(set, n) == UNION {[1..m -> set] : m \in 0..n}

\* mappings with at most n entries: the keys of a mapping are distinct
MapsUpTo(keys, vals, n) ==
  {M(s) : s \in {q \in SeqsUpTo([key : keys, val : vals], n) :
                   \A i, j \in 1..Len(q) : q[i].key = q[j].key => i = j}}

RespOk == Resp(S("ok"), Absent)

RespArray == Resp(Absent, Schema(S("array"), Schema(S("string"), Absent)))

RespNullItems == Resp(S("ok"), Schema(S("array"), Null))

GetPets == Op(L(<<"pets">>), Absent, Absent, M(<<Entry("200", RespOk)>>))

ParamIdPath == Param(S("id"), S("path"), B(TRUE), S("string"), Absent, Absent)

ParamIdQuery == Param(S("id"), S("query"), B(TRUE), S("string"), Absent, Absent)

ParamIdSchema ==
  Param(S("id"), S("path"), B(TRUE), Absent, Schema(S("string"), Absent), Absent)

ParamQ == Param(S("q"), S("query"), Absent, Absent, Null, Null)

OpPlain == Op(Absent, Absent, L(<<ParamIdPath>>), Absent)

ParamVals == {ParamIdPath, ParamIdQuery, ParamIdSchema, ParamQ, S("x")}

\* host, basePath and schemes vary
UrlDocs ==
  {Doc(host, basePath, schemes, Absent,
       M(<<Entry(path, M(<<Entry("get", GetPets)>>))>>), Absent, Absent, Absent) :
     host \in {Absent, Null, S(""), S("api.example.com")},
     basePath \in {Absent, Null, S(""), S("/v1")},
     schemes \in {Absent, Null, L(<<>>), L(<<"http">>), L(<<"http", "https">>)},
     path \in {"/pets", "/a"}}

ReqKey == M(<<Entry("api_key", L(<<>>))>>)

ReqOauth == M(<<Entry("oauth", L(<<"read", "write">>))>>)

ReqBoth == M(<<Entry("api_key", Null), Entry("oauth", L(<<"read">>))>>)

SecurityVals ==
  {Null, L(<<>>), L(<<ReqKey>>), L(<<ReqOauth>>), L(<<ReqOauth, ReqKey>>), L(<<ReqBoth>>)}

\* the document's and two operations' security vary
SecurityDocs ==
  {Doc(Absent, Absent, Absent, security,
       M(<<Entry("/pets", M(<<Entry("get", Op(Absent, s1, Absent, Absent)),
                               Entry("post", Op(Absent, s2, Absent, Absent))>>))>>),
       Absent, Absent, Absent) :
     security \in SecurityVals \cup {Absent},
     s1 \in SecurityVals \cup {Absent},
     s2 \in SecurityVals \cup {Absent}}

TagsVals ==
  {Absent, Null, L(<<>>), L(<<"pets">>), L(<<"pets", "store">>), L(<<"store">>),
   L(<<"">>), L(<<"", "pets">>)}

\* the tags of an operation with parameters and responses vary
TagsDocs ==
  {PathsDoc(M(<<Entry("/pets",
       M(<<Entry("parameters", L(<<ParamIdPath>>)),
           Entry("get", Op(tgs, Absent, params, M(<<Entry("200", RespOk)>>))),
           Entry("post", OpPlain)>>))>>)) :
     tgs \in TagsVals, params \in {Absent, L(<<ParamQ>>)}}

\* the path-level and the operation-level parameters vary: at most MaxParams
\* parameters in the two lists together
ParamsDocs ==
  {PathsDoc(M(<<Entry("/pets/{id}",
       M(IF pp[1] = Absent THEN <<Entry("get", Op(Absent, Absent, pp[2], Absent))>>
         ELSE <<Entry("parameters", pp[1]),
                Entry("get", Op(Absent, Absent, pp[2], Absent))>>))>>)) :
     pp \in UNION {({Absent, Null} \cup {L(s) : s \in [1..n -> ParamVals]})
                     \X ({Absent, Null} \cup {L(s) : s \in SeqsUpTo(ParamVals, MaxParams - n)}) :
                   n \in 0..MaxParams}}

RespVals == {RespOk, RespArray, RespNullItems, S("x")}

\* the responses of an operation vary
ResponsesDocs ==
  {PathsDoc(M(<<Entry("/pets", M(<<Entry("get", Op(Absent, Absent, Absent, resps))>>))>>)) :
     resps \in {Absent, Null} \cup MapsUpTo({"200", "404", "default"}, RespVals, MaxResponses)}

\* the entries a path item can hold
EntryVals ==
  [key : {"get"}, val : {GetPets, OpPlain, Null}]
    \cup {Entry("GET", GetPets), Entry("post", OpPlain), Entry("post", Null),
          Entry("trace", GetPets), Entry("parameters", L(<<ParamQ>>)),
          Entry("summary", S("text"))}

\* the path items with n entries: the keys of a mapping are distinct
PathItems(n) ==
  {M(s) : s \in {q \in [1..n -> EntryVals] :
                   \A i, j \in 1..n : q[i].key = q[j].key => i = j}}

\* the paths, the keys of the path items and what they hold vary: at most
\* MaxEntries entries in the path items together
StructureDocs ==
  {PathsDoc(paths) : paths \in {Absent, Null, M(<<>>)}}
    \cup {PathsDoc(M(<<Entry(p, item)>>)) :
            p \in {"/pets", "/a"},
            item \in {Null} \cup UNION {PathItems(n) : n \in 0..MaxEntries}}
    \cup {PathsDoc(M(<<Entry(p[1], i[1]), Entry(p[2], i[2])>>)) :
            p \in {<<"/pets", "/a">>, <<"/a", "/pets">>},
            i \in UNION {({Null} \cup PathItems(n)) \X ({Null} \cup PathItems(m)) :
                           <<n, m>> \in {x \in (0..MaxEntries) \X (0..MaxEntries) :
                                            x[1] + x[2] <= MaxEntries}}}

TagDoc(externalDocs) ==
  [k |-> "dict", name |-> S("pets"), description |-> Absent, externalDocs |-> externalDocs]

ExternalDocs == [k |-> "dict", description |-> S("more"), url |-> Absent]

SecurityScheme(scopes) == [k |-> "dict", type |-> S("oauth2"), scopes |-> scopes]

Property(type, items, xml) ==
  [k |-> "dict", type |-> type, items |-> items, xml |-> xml]

Model(xml, properties) ==
  [k |-> "dict", type |-> S("object"), required |-> Absent, xml |-> xml,
   properties |-> properties]

PetProperties(xml) ==
  M(<<Entry("name", Property(S("string"), Absent, xml)),
      Entry("tags", Property(S("array"), Schema(S("string"), Absent), Absent))>>)

\* the document-level tags, security definitions and definitions vary
CatalogDocs ==
  {Doc(Absent, Absent, Absent, Absent, M(<<>>), tgs, securityDefinitions, definitions) :
     tgs \in {Absent, Null, L(<<TagDoc(Absent)>>), L(<<TagDoc(ExternalDocs)>>),
              L(<<TagDoc(Null)>>)},
     securityDefinitions \in
       {Absent, Null, M(<<Entry("oauth", SecurityScheme(M(<<Entry("read", S("read pets"))>>)))>>),
        M(<<Entry("oauth", SecurityScheme(Null))>>)},
     definitions \in
       {Absent, Null, M(<<Entry("Pet", Model(Absent, PetProperties(Absent)))>>),
        M(<<Entry("Pet", Model(Null, Absent))>>),
        M(<<Entry("Pet", Model([k |-> "dict", name |-> S("pet"), wrapped |-> Absent],
                               PetProperties(Null)))>>)}}

Docs ==
  UrlDocs \cup SecurityDocs \cup TagsDocs \cup ParamsDocs \cup ResponsesDocs
    \cup StructureDocs \cup CatalogDocs

-----------------------------------------------------------------------------
(* The runs *)

Init ==
  /\ sw \in Docs
  /\ prog \in {"openAi_to_Excel", "openapi_to_csv"}
  /\ pc = IF prog = "openAi_to_Excel" THEN "extract_endpoints" ELSE "main"
  /\ failed = ""
  /\ endpoints = <<>>
  /\ parameters = <<>>
  /\ responses = <<>>
  /\ tags = <<>>
  /\ securities = <<>>
  /\ models = <<>>
  /\ model_props = <<>>
  /\ rows = <<>>

\* an exception leaves export_tables or main: nothing is written
Raise(function) ==
  /\ pc' = "raised"
  /\ failed' = function

ExtractEndpoints ==
  /\ pc = "extract_endpoints"
  /\ IF extract_endpoints_raises(sw)
     THEN Raise("extract_endpoints") /\ UNCHANGED endpoints
     ELSE /\ endpoints' = extract_endpoints(sw)
          /\ pc' = "extract_parameters"
          /\ UNCHANGED failed
  /\ UNCHANGED <<sw, prog, parameters, responses, tags, securities, models,
                 model_props, rows>>

ExtractParameters ==
  /\ pc = "extract_parameters"
  /\ IF extract_parameters_raises(sw)
     THEN Raise("extract_parameters") /\ UNCHANGED parameters
     ELSE /\ parameters' = extract_parameters(sw)
          /\ pc' = "extract_responses"
          /\ UNCHANGED failed
  /\ UNCHANGED <<sw, prog, endpoints, responses, tags, securities, models,
                 model_props, rows>>

ExtractResponses ==
  /\ pc = "extract_responses"
  /\ IF extract_responses_raises(sw)
     THEN Raise("extract_responses") /\ UNCHANGED responses
     ELSE /\ responses' = extract_responses(sw)
          /\ pc' = "extract_tags"
          /\ UNCHANGED failed
  /\ UNCHANGED <<sw, prog, endpoints, parameters, tags, securities, models,
                 model_props, rows>>

ExtractTags ==
  /\ pc = "extract_tags"
  /\ IF extract_tags_raises(sw)
     THEN Raise("extract_tags") /\ UNCHANGED tags
     ELSE /\ tags' = extract_tags(sw)
          /\ pc' = "extract_securities"
          /\ UNCHANGED failed
  /\ UNCHANGED <<sw, prog, endpoints, parameters, responses, securities, models,
                 model_props, rows>>

ExtractSecurities ==
  /\ pc = "extract_securities"
  /\ IF extract_securities_raises(sw)
     THEN Raise("extract_securities") /\ UNCHANGED securities
     ELSE /\ securities' = extract_securities(sw)
          /\ pc' = "extract_models_and_properties"
          /\ UNCHANGED failed
  /\ UNCHANGED <<sw, prog, endpoints, parameters, responses, tags, models,
                 model_props, rows>>

ExtractModelsAndProperties ==
  /\ pc = "extract_models_and_properties"
  /\ IF extract_models_and_properties_raises(sw)
     THEN Raise("extract_models_and_properties") /\ UNCHANGED <<models, model_props>>
     ELSE /\ models' = extract_models_and_properties(sw)[1]
          /\ model_props' = extract_models_and_properties(sw)[2]
          /\ pc' = "write"
          /\ UNCHANGED failed
  /\ UNCHANGED <<sw, prog, endpoints, parameters, responses, tags, securities, rows>>

\* the relations go to the CSV files and the workbook as they are
WriteTables ==
  /\ pc = "write"
  /\ pc' = "done"
  /\ UNCHANGED <<sw, prog, failed, endpoints, parameters, responses, tags,
                 securities, models, model_props, rows>>

Main ==
  /\ pc = "main"
  /\ IF main_raises(sw)
     THEN Raise("main") /\ UNCHANGED rows
     ELSE /\ rows' = main(sw)
          /\ pc' = "done"
          /\ UNCHANGED failed
  /\ UNCHANGED <<sw, prog, endpoints, parameters, responses, tags, securities,
                 models, model_props>>

Next ==
  \/ ExtractEndpoints
  \/ ExtractParameters
  \/ ExtractResponses
  \/ ExtractTags
  \/ ExtractSecurities
  \/ ExtractModelsAndProperties
  \/ WriteTables
  \/ Main

Spec == Init /\ [][Next]_vars

-----------------------------------------------------------------------------
(* What the claims speak of *)

ExcelDone == prog = "openAi_to_Excel" /\ pc = "done"

CsvDone == prog = "openapi_to_csv" /\ pc = "done"

\* every entry of every path item that is a mapping, in document order
AllEntries(doc) ==
  IF ~IsDict(GetN(doc.paths)) THEN <<>>
  ELSE Concat([i \in 1..Len(doc.paths.e) |->
         LET item == doc.paths.e[i].val
         IN  IF ~IsDict(item) THEN <<>>
             ELSE [j \in 1..Len(item.e) |->
                     [path |-> doc.paths.e[i].key, key |-> item.e[j].key,
                      val |-> item.e[j].val, item |-> item]]])

ExcelVerbs == {"get", "put", "post", "delete", "options", "head", "patch"}

CsvVerbs == ExcelVerbs \cup {"trace"}

\* key is one of verbs, compared without regard to case
IsVerb(key, verbs) == \E v \in verbs : upper(key) = upper(v)

\* the operations of a document: a verb key that holds a mapping
Ops(doc, verbs) ==
  SelectSeq(AllEntries(doc), LAMBDA x : IsVerb(x.key, verbs) /\ IsDict(x.val))

Pair(x) == <<x.path, upper(x.key)>>

\* the rows of a relation that carry a (path, method) pair
RowsOf(relation, pair) ==
  {n \in DOMAIN relation : <<relation[n].path, relation[n].method>> = pair}

PathLevel(x) == MGet(x.item, "parameters", L(<<>>))

OpLevel(x) == Get(x.val.parameters, L(<<>>))

\* the status codes an operation declares
ResponseKeys(op) ==
  IF op.responses.k = "dict"
  THEN {op.responses.e[n].key : n \in 1..Len(op.responses.e)}
  ELSE {}

\* every value under the responses of an operation is a mapping
AllMappings(op) ==
  op.responses.k = "dict" =>
    \A n \in 1..Len(op.responses.e) : IsDict(op.responses.e[n].val)

\* no other operation of the document has the (path, method) pair of the i-th
UniquePair(i) ==
  \A j \in 1..Len(Ops(sw, ExcelVerbs)) :
    Pair(Ops(sw, ExcelVerbs)[j]) = Pair(Ops(sw, ExcelVerbs)[i]) => j = i

-----------------------------------------------------------------------------
(* C1 *)

\* C1: parameters_count of an operation's endpoints row is the number of
\* parameters rows of its (path, method) pair, and that number is the length of
\* the merged, de-duplicated parameter list of the operation (stated of the
\* operations that are alone in having their pair).
ParametersCountAfterDedup ==
  ExcelDone =>
    \A i \in 1..Len(endpoints) :
      LET x == Ops(sw, ExcelVerbs)[i]
      IN  UniquePair(i) =>
            /\ endpoints[i].parameters_count = Cardinality(RowsOf(parameters, Pair(x)))
            /\ endpoints[i].parameters_count =
                 Len(Dedup(RenderAll(OpLevel(x), PathLevel(x)), {}, <<>>))

-----------------------------------------------------------------------------
(* C2 *)

\* the security column a list of requirements renders to
RenderSecurity(security) ==
  IF security.k # "list" THEN Null
  ELSE LET tokens == Concat([i \in 1..Len(security.v) |-> SecurityTokens(security.v[i])])
       IN  IF tokens = <<>> THEN Null ELSE S(Join(tokens, ", "))

\* C2: the security column is rendered from the operation's own list when the
\* operation has a security key and from the document's list only when it has
\* none; an explicit empty list gives a null column whatever the default is.
SecurityOverrides ==
  ExcelDone =>
    /\ Len(endpoints) = Len(Ops(sw, ExcelVerbs))
    /\ \A i \in 1..Len(endpoints) :
         LET op == Ops(sw, ExcelVerbs)[i].val
         IN  /\ op.security # Absent => endpoints[i].security = RenderSecurity(op.security)
             /\ op.security = Absent => endpoints[i].security = RenderSecurity(sw.security)
             /\ op.security = L(<<>>) => endpoints[i].security = Null

SecurityOverridesWitness ==
  /\ ExcelDone
  /\ sw.security = L(<<ReqOauth>>)
  /\ \E i, j \in 1..Len(endpoints) :
       /\ Ops(sw, ExcelVerbs)[i].val.security = L(<<>>)
       /\ endpoints[i].security = Null
       /\ Ops(sw, ExcelVerbs)[j].val.security = Absent
       /\ endpoints[j].security = S("oauth(read, write)")

-----------------------------------------------------------------------------
(* C3 *)

\* C3: on a parsed document no extractor raises (stated of the documents
\* whose paths, when they have any, are a mapping).
ExtractionAlwaysCompletes ==
  (prog = "openAi_to_Excel" /\ GetN(sw.paths) # Null) => pc # "raised"

-----------------------------------------------------------------------------
(* C4 *)

\* the entries of a list of renderings that no earlier entry equals
KeepFirst(c) ==
  LET kept == {i \in 1..Len(c) : \A j \in 1..(i - 1) : c[j] # c[i]}
      nth(n) == CHOOSE i \in kept : Cardinality({j \in kept : j < i}) = n - 1
  IN  [n \in 1..Cardinality(kept) |-> nth(n)]

\* the renderings of the parameters of a list that are mappings, in its order
Renderings(list) ==
  LET dicts == SelectSeq(list.v, IsDict)
  IN  [i \in 1..Len(dicts) |-> RenderParam(dicts[i])]

MergedRenderings(x) ==
  LET path_level == IF PathLevel(x).k = "list" THEN PathLevel(x) ELSE L(<<>>)
      op_level == IF OpLevel(x).k = "list" THEN OpLevel(x) ELSE L(<<>>)
      c == Renderings(path_level) \o Renderings(op_level)
  IN  [n \in 1..Len(KeepFirst(c)) |-> c[KeepFirst(c)[n]]]

\* two parameters that are mappings
BothMappings(p, q) == IsDict(p) /\ IsDict(q)

\* the type a parameter declares: its schema's when it has a schema
ShownType(p) ==
  IF p.schema.k = "dict" THEN Get(p.schema.type, S("")) ELSE Get(p.type, S(""))

\* C4: the Parameters column of an operation is the renderings of the
\* path-level parameters followed by those of the operation-level ones, each
\* rendering that equals an earlier one removed; parameters of one name and two
\* locations render differently, and parameters that agree in name, location,
\* required marker and type render the same.
MergeKeepsFirst ==
  /\ CsvDone =>
       \A i \in 1..Len(Ops(sw, CsvVerbs)) :
         LET x == Ops(sw, CsvVerbs)[i]
         IN  \E n \in 1..Len(rows) :
               /\ <<rows[n].Path, rows[n].Method>> = Pair(x)
               /\ rows[n].Parameters = Join(MergedRenderings(x), "; ")
  /\ \A p, q \in ParamVals :
       BothMappings(p, q) =>
         /\ (p.name = q.name /\ p.in # q.in) => RenderParam(p) # RenderParam(q)
         /\ (/\ p.name = q.name
             /\ p.in = q.in
             /\ Truthy(Get(p.required, B(FALSE))) = Truthy(Get(q.required, B(FALSE)))
             /\ ShownType(p) = ShownType(q)) => RenderParam(p) = RenderParam(q)

MergeKeepsFirstWitness ==
  /\ CsvDone
  /\ \E x \in {Ops(sw, CsvVerbs)[i] : i \in 1..Len(Ops(sw, CsvVerbs))} :
       /\ PathLevel(x) = L(<<ParamIdPath, ParamIdQuery>>)
       /\ OpLevel(x) = L(<<ParamIdSchema>>)
  /\ Len(rows) = 1
  /\ rows[1].Parameters = "id (path)* : string; id (query)* : string"

-----------------------------------------------------------------------------
(* C5 *)

\* the scheme, host and basePath a URL is built of
UrlScheme ==
  IF sw.schemes.k = "list" /\ Len(sw.schemes.v) > 0 THEN sw.schemes.v[1] ELSE "https"

UrlBasePath == IF sw.basePath.k = "str" THEN sw.basePath.v ELSE ""

UrlOf(path) == S(UrlScheme \o "://" \o sw.host.v \o UrlBasePath \o path)

\* C5 as stated: full_url_template is null when host is absent, and
\* scheme://host + basePath + path whenever host is present.
FullUrlWheneverHostPresent ==
  ExcelDone =>
    \A i \in 1..Len(endpoints) :
      IF sw.host \in {Absent, Null}
      THEN endpoints[i].full_url_template = Null
      ELSE endpoints[i].full_url_template = UrlOf(endpoints[i].path)

\* C5, amended: full_url_template is null when host is absent, null or the
\* empty string, and scheme://host + basePath + path when host is a string
\* that is not empty.
FullUrlWhenHostNotEmpty ==
  ExcelDone =>
    /\ Len(endpoints) = Len(Ops(sw, ExcelVerbs))
    /\ \A i \in 1..Len(endpoints) :
         /\ endpoints[i].path = Ops(sw, ExcelVerbs)[i].path
         /\ IF sw.host \in {Absent, Null, S("")}
            THEN endpoints[i].full_url_template = Null
            ELSE endpoints[i].full_url_template = UrlOf(endpoints[i].path)

FullUrlWitness ==
  /\ ExcelDone
  /\ sw.host = S("api.example.com")
  /\ sw.basePath = S("/v1")
  /\ sw.schemes = L(<<"http">>)
  /\ Len(endpoints) = 1
  /\ endpoints[1].path = "/pets"
  /\ endpoints[1].full_url_template = S("http://api.example.com/v1/pets")

-----------------------------------------------------------------------------
(* C6 *)

\* C6: responses_count of an operation's row is the number of status codes
\* under its responses, whatever they hold, and 0 when it declares none.
ResponsesCountIsKeyCount ==
  ExcelDone =>
    /\ Len(endpoints) = Len(Ops(sw, ExcelVerbs))
    /\ \A i \in 1..Len(endpoints) :
         LET x == Ops(sw, ExcelVerbs)[i]
         IN  /\ <<endpoints[i].path, endpoints[i].method>> = Pair(x)
             /\ endpoints[i].responses_count = Cardinality(ResponseKeys(x.val))
             /\ x.val.responses = Absent => endpoints[i].responses_count = 0

ResponsesCountWitness ==
  /\ ExcelDone
  /\ \E i \in 1..Len(endpoints) :
       /\ endpoints[i].responses_count = MaxResponses
       /\ ~AllMappings(Ops(sw, ExcelVerbs)[i].val)

-----------------------------------------------------------------------------
(* C7 *)

\* the (path, method) pairs of the rows of a relation
PairsOf(relation) ==
  {<<relation[n].path, relation[n].method>> : n \in DOMAIN relation}

\* the extractors have what they read of an operation in the shape they expect
WellFormed(x) ==
  /\ PathLevel(x).k = "list" /\ \A n \in 1..Len(PathLevel(x).v) : IsDict(PathLevel(x).v[n])
  /\ OpLevel(x).k = "list" /\ \A n \in 1..Len(OpLevel(x).v) : IsDict(OpLevel(x).v[n])
  /\ x.val.responses.k \in {"absent", "dict"}
  /\ x.val.responses.k = "dict" =>
       \A n \in 1..Len(x.val.responses.e) :
         LET resp == x.val.responses.e[n].val
         IN  (IsDict(resp) /\ resp.schema.k = "dict") => resp.schema.items # Null

\* C7: an entry of a path item is an operation, and yields a row, exactly when
\* its key is a verb (whatever its case) and it holds a mapping; the other
\* entries yield no row and no error; the three extractors pick the same
\* operations.
OperationsAreVerbMappings ==
  /\ ExcelDone =>
       /\ [i \in 1..Len(endpoints) |-> <<endpoints[i].path, endpoints[i].method>>]
            = [i \in 1..Len(Ops(sw, ExcelVerbs)) |-> Pair(Ops(sw, ExcelVerbs)[i])]
       /\ PairsOf(parameters) =
            {Pair(Ops(sw, ExcelVerbs)[i]) : i \in
               {j \in 1..Len(Ops(sw, ExcelVerbs)) :
                  Len(PathLevel(Ops(sw, ExcelVerbs)[j]).v)
                    + Len(OpLevel(Ops(sw, ExcelVerbs)[j]).v) > 0}}
       /\ PairsOf(responses) =
            {Pair(Ops(sw, ExcelVerbs)[i]) : i \in
               {j \in 1..Len(Ops(sw, ExcelVerbs)) :
                  \E n \in 1..Len(Get(Ops(sw, ExcelVerbs)[j].val.responses, M(<<>>)).e) :
                    IsDict(Ops(sw, ExcelVerbs)[j].val.responses.e[n].val)}}
  /\ CsvDone =>
       /\ Len(rows) = Len(Ops(sw, CsvVerbs))
       /\ {<<rows[n].Path, rows[n].Method>> : n \in 1..Len(rows)}
            = {Pair(Ops(sw, CsvVerbs)[i]) : i \in 1..Len(Ops(sw, CsvVerbs))}
  /\ (/\ failed \in {"extract_endpoints", "extract_parameters", "extract_responses", "main"}
      /\ GetN(sw.paths) # Null)
       => \E i \in 1..Len(Ops(sw, ExcelVerbs)) : ~WellFormed(Ops(sw, ExcelVerbs)[i])

OperationsWitness ==
  /\ ExcelDone
  /\ Len(endpoints) = 1
  /\ endpoints[1].method = "GET"
  /\ \E i, j \in 1..Len(AllEntries(sw)) :
       /\ AllEntries(sw)[i].key = "GET"
       /\ AllEntries(sw)[j].key = "post"
       /\ AllEntries(sw)[j].val = Null

-----------------------------------------------------------------------------
(* C8 *)

\* the first of the tags an operation declares, null when it declares none
FirstTag(op) ==
  IF op.tags.k = "list" /\ Len(op.tags.v) > 0 THEN S(op.tags.v[1]) ELSE Null

\* the api_group of every row of a relation is that of an operation of its pair
GroupsOf(relation) ==
  \A n \in 1..Len(relation) :
    \E i \in 1..Len(Ops(sw, ExcelVerbs)) :
      /\ Pair(Ops(sw, ExcelVerbs)[i]) = <<relation[n].path, relation[n].method>>
      /\ relation[n].api_group = FirstTag(Ops(sw, ExcelVerbs)[i].val)

NoEmptyGroup(relation) ==
  \A n \in 1..Len(relation) : relation[n].api_group # S("")

\* C8 as stated: api_group is the first tag, null without tags, and never the
\* empty string.
ApiGroupNeverEmpty ==
  ExcelDone =>
    /\ GroupsOf(endpoints) /\ GroupsOf(parameters) /\ GroupsOf(responses)
    /\ NoEmptyGroup(endpoints) /\ NoEmptyGroup(parameters) /\ NoEmptyGroup(responses)

\* a row has the empty string for api_group only when an operation of its pair
\* has the empty string for its first tag
EmptyGroupIsFirstTag(relation) ==
  \A n \in 1..Len(relation) :
    relation[n].api_group = S("") =>
      \E i \in 1..Len(Ops(sw, ExcelVerbs)) :
        /\ Pair(Ops(sw, ExcelVerbs)[i]) = <<relation[n].path, relation[n].method>>
        /\ Ops(sw, ExcelVerbs)[i].val.tags.k = "list"
        /\ Ops(sw, ExcelVerbs)[i].val.tags.v # <<>>
        /\ Ops(sw, ExcelVerbs)[i].val.tags.v[1] = ""

\* C8, amended: api_group is the first tag, and null when tags is absent, null
\* or empty; it is the empty string only when the first tag is the empty
\* string.
ApiGroupIsFirstTag ==
  ExcelDone =>
    /\ Len(endpoints) = Len(Ops(sw, ExcelVerbs))
    /\ \A i \in 1..Len(endpoints) :
         endpoints[i].api_group = FirstTag(Ops(sw, ExcelVerbs)[i].val)
    /\ GroupsOf(parameters) /\ GroupsOf(responses)
    /\ EmptyGroupIsFirstTag(endpoints)
    /\ EmptyGroupIsFirstTag(parameters)
    /\ EmptyGroupIsFirstTag(responses)

ApiGroupWitness ==
  /\ ExcelDone
  /\ \E i \in 1..Len(endpoints), n \in 1..Len(parameters), m \in 1..Len(responses) :
       /\ Ops(sw, ExcelVerbs)[i].val.tags = L(<<"store">>)
       /\ endpoints[i].api_group = S("store")
       /\ parameters[n].api_group = S("store")
       /\ responses[m].api_group = S("store")
  /\ \E i \in 1..Len(endpoints) :
       /\ Ops(sw, ExcelVerbs)[i].val.tags = Absent
       /\ endpoints[i].api_group = Null

-----------------------------------------------------------------------------
(* C9 *)

\* a field of a mapping as a row shows it
Shown(field) == IF field = Absent THEN Null ELSE field

\* endpoints, parameters and responses rows in the order of the traversal:
\* paths, then operations, then path-level before operation-level parameters,
\* and the responses that are mappings
EndpointsInOrder ==
  [i \in 1..Len(endpoints) |-> <<endpoints[i].path, endpoints[i].method>>]
    = [i \in 1..Len(Ops(sw, ExcelVerbs)) |-> Pair(Ops(sw, ExcelVerbs)[i])]

ParametersInOrder ==
  [n \in 1..Len(parameters) |->
     <<parameters[n].path, parameters[n].method, parameters[n].name, parameters[n].in>>]
    = Concat([i \in 1..Len(Ops(sw, ExcelVerbs)) |->
        LET x == Ops(sw, ExcelVerbs)[i]
            ps == PathLevel(x).v \o OpLevel(x).v
        IN  [n \in 1..Len(ps) |->
               <<x.path, upper(x.key), Shown(ps[n].name), Shown(ps[n].in)>>]])

ResponsesInOrder ==
  [n \in 1..Len(responses) |->
     <<responses[n].path, responses[n].method, responses[n].status_code>>]
    = Concat([i \in 1..Len(Ops(sw, ExcelVerbs)) |->
        LET x == Ops(sw, ExcelVerbs)[i]
            rs == SelectSeq(Get(x.val.responses, M(<<>>)).e, LAMBDA en : IsDict(en.val))
        IN  [n \in 1..Len(rs) |-> <<x.path, upper(x.key), rs[n].key>>]])

CsvRowsInOrder ==
  [n \in 1..Len(rows) |-> <<rows[n].Path, rows[n].Method>>]
    = [i \in 1..Len(Ops(sw, CsvVerbs)) |-> Pair(Ops(sw, CsvVerbs)[i])]

\* C9 as stated: the rows of every relation are in traversal order, and
\* nothing reorders them after the traversal.
RowsInTraversalOrder ==
  /\ ExcelDone => EndpointsInOrder /\ ParametersInOrder /\ ResponsesInOrder
  /\ CsvDone => CsvRowsInOrder

\* rs is ts sorted by (API Group, Path, Method), rows of one key staying in
\* the order they have in ts
StableSorted(rs, ts) ==
  /\ Len(rs) = Len(ts)
  /\ \A i, j \in 1..Len(rs) : i < j => ~KeyLess(SortKey(rs[j]), SortKey(rs[i]))
  /\ \E f \in [1..Len(rs) -> 1..Len(ts)] :
       /\ \A i, j \in 1..Len(rs) : i < j => f[i] # f[j]
       /\ \A i \in 1..Len(rs) : rs[i] = ts[f[i]]
       /\ \A i, j \in 1..Len(rs) :
            (i < j /\ SortKey(rs[i]) = SortKey(rs[j])) => f[i] < f[j]

\* C9, amended: the endpoints, parameters and responses relations of
\* openAi_to_Excel.py are in traversal order; openapi_to_csv.py sorts the rows
\* of its traversal by (API Group, Path, Method) before it writes them, rows of
\* one key staying in traversal order.
RowsInTraversalOrderUnlessSorted ==
  /\ ExcelDone => EndpointsInOrder /\ ParametersInOrder /\ ResponsesInOrder
  /\ CsvDone =>
       /\ [n \in 1..Len(CsvTraversal(sw)) |->
             <<CsvTraversal(sw)[n].Path, CsvTraversal(sw)[n].Method>>]
            = [i \in 1..Len(Ops(sw, CsvVerbs)) |-> Pair(Ops(sw, CsvVerbs)[i])]
       /\ StableSorted(rows, CsvTraversal(sw))

TraversalOrderWitness ==
  /\ ExcelDone
  /\ Len(endpoints) = 2
  /\ endpoints[1].method = "GET"
  /\ endpoints[2].method = "POST"
  /\ Len(parameters) = 4
  /\ parameters[1].name = S("id") /\ parameters[1].method = "GET"
  /\ parameters[2].name = S("q") /\ parameters[2].method = "GET"
  /\ parameters[3].name = S("id") /\ parameters[3].method = "POST"
  /\ parameters[4].name = S("id") /\ parameters[4].method = "POST"
  /\ PathLevel(Ops(sw, ExcelVerbs)[1]) = L(<<ParamIdPath>>)
  /\ OpLevel(Ops(sw, ExcelVerbs)[1]) = L(<<ParamQ>>)

-----------------------------------------------------------------------------
(* C10 *)

\* the responses rows of the i-th operation's pair, against its responses_count
ResponseRowsWithinCount(i) ==
  LET x == Ops(sw, ExcelVerbs)[i]
      n == Cardinality(RowsOf(responses, Pair(x)))
  IN  /\ n <= endpoints[i].responses_count
      /\ n = endpoints[i].responses_count <=> AllMappings(x.val)

\* C10 as stated: the responses rows of an operation's (path, method) pair are
\* at most its responses_count, and as many exactly when every value under its
\* responses is a mapping; the pairs of parameters and responses rows are pairs
\* of endpoints rows.
ResponseRowsPerPair ==
  ExcelDone =>
    /\ \A i \in 1..Len(endpoints) : ResponseRowsWithinCount(i)
    /\ PairsOf(parameters) \subseteq PairsOf(endpoints)
    /\ PairsOf(responses) \subseteq PairsOf(endpoints)

\* C10, amended: the same, for the operations that are alone in their path in
\* having their method once it is upper-cased (two keys of a path item that
\* differ only in case share their pair, and their rows are counted together).
ResponseRowsPerOperation ==
  ExcelDone =>
    /\ Len(endpoints) = Len(Ops(sw, ExcelVerbs))
    /\ \A i \in 1..Len(endpoints) : UniquePair(i) => ResponseRowsWithinCount(i)
    /\ PairsOf(parameters) \subseteq PairsOf(endpoints)
    /\ PairsOf(responses) \subseteq PairsOf(endpoints)

ResponseRowsWitness ==
  /\ ExcelDone
  /\ \E i \in 1..Len(endpoints) :
       /\ UniquePair(i)
       /\ endpoints[i].responses_count = 2
       /\ Cardinality(RowsOf(responses, Pair(Ops(sw, ExcelVerbs)[i]))) = 1
  /\ PairsOf(responses) # {}

====
